---------------------------- MODULE Spec2Model ----------------------------
(***************************************************************************)
(* A model of redis-cli-standalone: the RESP reply decoder and printer     *)
(* (protocal.go), the Connection (connector.go) and the command drivers    *)
(* singleCmd and scan (main.go).                                           *)
(*                                                                         *)
(* Bytes are one-character strings, byte strings are sequences of them.    *)
(* A Go value of type `any` is a record tagged by its dynamic type:        *)
(*   nil, string, int or []*TypedVal.                                      *)
(***************************************************************************)
EXTENDS Integers, Sequences, FiniteSets

VARIABLES
    bufReader,  \* bytes the reader has not consumed yet
    sent,       \* codec runs: the reply trees whose encodings made the stream
    calls,      \* codec runs: the results of the ReadValue calls so far
    printed,    \* codec runs: the last PrintVal call, [val, raw, out]
    args,       \* the Args of the run; args.Db is the tracked database index
    istty,      \* Connection.istty
    conn,       \* Connection.conn: "nil", "open" or "closed"
    hasReader,  \* Connection.bufReader != nil
    connected,  \* Connection.connected
    eof,        \* the server has closed the connection
    pc,         \* where the program is
    caller,     \* the function the running Exec returns to
    input,      \* the command line of the running Exec
    execRes,    \* what the last Exec returned: [tv, err]
    loopI,      \* singleCmd's loop counter i
    cursor,     \* scan's cursor
    page,       \* SCAN requests sent with a cursor other than "0"
    hist,       \* what the program has done so far, in order
    ret         \* what singleCmd returned: "none" while it runs, "nil" or "err";
                \* in the interactive mode, where the main thread is

codecVars   == <<sent, calls, printed>>
sessionVars == <<args, istty, conn, hasReader, connected, eof, pc, caller, input,
                 execRes, loopI, cursor, page, hist, ret>>
vars == <<bufReader, codecVars, sessionVars>>

-----------------------------------------------------------------------------
(* Bytes and byte strings *)

CR == "\r"
LF == "\n"

Digit == {"0", "1", "2", "3", "4", "5", "6", "7", "8", "9"}

DigitVal(d) ==
    CASE d = "0" -> 0 [] d = "1" -> 1 [] d = "2" -> 2 [] d = "3" -> 3
      [] d = "4" -> 4 [] d = "5" -> 5 [] d = "6" -> 6 [] d = "7" -> 7
      [] d = "8" -> 8 [] d = "9" -> 9

DigitChar(n) ==
    CASE n = 0 -> "0" [] n = 1 -> "1" [] n = 2 -> "2" [] n = 3 -> "3"
      [] n = 4 -> "4" [] n = 5 -> "5" [] n = 6 -> "6" [] n = 7 -> "7"
      [] n = 8 -> "8" [] n = 9 -> "9"

RECURSIVE DecVal(_)
DecVal(ds) ==
    IF ds = <<>> THEN 0
    ELSE 10 * DecVal(SubSeq(ds, 1, Len(ds) - 1)) + DigitVal(ds[Len(ds)])

RECURSIVE NatStr(_)
NatStr(n) ==
    IF n < 10 THEN <<DigitChar(n)>>
    ELSE NatStr(n \div 10) \o <<DigitChar(n % 10)>>

\* fmt's %d and fmt.Sprint of an int
Itoa(n) == IF n < 0 THEN <<"-">> \o NatStr(-n) ELSE NatStr(n)

\* strconv.Atoi with its error dropped: 0 for anything that is not an
\* optionally signed run of decimal digits
Atoi(s) ==
    LET signed == Len(s) > 0 /\ s[1] \in {"+", "-"}
        ds     == IF signed THEN Tail(s) ELSE s
    IN  IF ds = <<>> \/ \E i \in 1..Len(ds) : ds[i] \notin Digit THEN 0
        ELSE IF signed /\ s[1] = "-" THEN 0 - DecVal(ds) ELSE DecVal(ds)

-----------------------------------------------------------------------------
(* protocal.go: TypedVal *)

TypeSimpleString == "+"
TypeError        == "-"
TypeInt          == ":"
TypeBulkString   == "$"
TypeArray        == "*"

NilVal     == [k |-> "nil"]
StrVal(s)  == [k |-> "string", s |-> s]
IntVal(n)  == [k |-> "int", n |-> n]
ArrVal(a)  == [k |-> "slice", a |-> a]

TypedVal(t, v) == [Type |-> t, Val |-> v]

\* the nil *TypedVal
NilPtr == [ptr |-> "nil"]

-----------------------------------------------------------------------------
(* bufio.Reader over the bytes s that have arrived and are not consumed.   *)
(* Each read returns what it produced, what is left, whether it failed     *)
(* (err) and whether it ran into the end of s (hit): at the end of a       *)
(* closed stream the read returns as modelled here, at the end of an open  *)
(* one it blocks.  Lines are shorter than the reader's buffer.             *)

FirstLF(s) ==
    IF \E i \in 1..Len(s) : s[i] = LF
    THEN CHOOSE i \in 1..Len(s) : s[i] = LF /\ \A j \in 1..(i - 1) : s[j] # LF
    ELSE 0

\* ReadLine: the line without its "\n" or "\r\n"; the last, unterminated
\* line is returned as it is; an error only when nothing is left
ReadLine(s) ==
    LET i == FirstLF(s) IN
    IF i = 0
    THEN [line |-> s, rest |-> <<>>, err |-> (s = <<>>), hit |-> TRUE]
    ELSE LET drop == IF i > 1 /\ s[i - 1] = CR THEN 2 ELSE 1
         IN  [line |-> SubSeq(s, 1, i - drop), rest |-> SubSeq(s, i + 1, Len(s)),
              err |-> FALSE, hit |-> FALSE]

\* io.ReadAtLeast(r, buf, n) with len(buf) = n > 0
ReadAtLeast(s, n) ==
    IF Len(s) >= n
    THEN [data |-> SubSeq(s, 1, n), rest |-> SubSeq(s, n + 1, Len(s)),
          err |-> FALSE, hit |-> FALSE]
    ELSE [data |-> s, rest |-> <<>>, err |-> TRUE, hit |-> TRUE]

-----------------------------------------------------------------------------
(* protocal.go: ReadValue.  st is "ok" (err == nil), "err" (err != nil) or *)
(* "panic" (the runtime panics in make with a negative length).            *)

Result(st, val, rest, hit) == [st |-> st, val |-> val, rest |-> rest, hit |-> hit]

ErrIf(e) == IF e THEN "err" ELSE "ok"

RECURSIVE ReadValue(_)
RECURSIVE ReadElems(_, _, _)

\* the loop of the array case: count - Len(acc) elements still to read
ReadElems(s, count, acc) ==
    IF Len(acc) >= count THEN Result("ok", acc, s, FALSE)
    ELSE LET r == ReadValue(s) IN
         IF r.st = "ok" THEN ReadElems(r.rest, count, Append(acc, r.val))
         ELSE Result(r.st, <<>>, r.rest, r.hit)

\* the cases '+', '-' and ':'
ReadLineValue(typ, s) ==
    LET l == ReadLine(s)
        v == IF typ = TypeInt THEN IntVal(Atoi(l.line)) ELSE StrVal(l.line)
    IN  Result(ErrIf(l.err), TypedVal(typ, v), l.rest, l.hit)

\* ReadBulkString with the length 0 case folded into the null case
ReadBulkStringEmptyAsNull(s) ==
    LET l      == ReadLine(s)
        length == Atoi(l.line)
    IN  IF length <= 0
        THEN Result(ErrIf(l.err), TypedVal(TypeBulkString, NilVal), l.rest, l.hit)
        ELSE LET d == ReadAtLeast(l.rest, length) IN
             IF d.err
             THEN Result("err", TypedVal(TypeBulkString, NilVal), d.rest, TRUE)
             ELSE LET t == ReadLine(d.rest)
                  IN  Result(ErrIf(t.err), TypedVal(TypeBulkString, StrVal(d.data)),
                             t.rest, l.hit \/ t.hit)

\* the case '$'
ReadBulkString(s) ==
    LET l      == ReadLine(s)
        length == Atoi(l.line)
    IN  IF length = -1
        THEN Result(ErrIf(l.err), TypedVal(TypeBulkString, NilVal), l.rest, l.hit)
        ELSE IF length = 0
        THEN LET t == ReadLine(l.rest)
             IN  Result(ErrIf(t.err), TypedVal(TypeBulkString, StrVal(<<>>)), t.rest,
                        l.hit \/ t.hit)
        ELSE IF length < 0
        THEN Result("panic", NilPtr, l.rest, l.hit)
        ELSE LET d == ReadAtLeast(l.rest, length) IN
             IF d.err
             THEN Result("err", TypedVal(TypeBulkString, NilVal), d.rest, TRUE)
             ELSE LET t == ReadLine(d.rest)
                  IN  Result(ErrIf(t.err), TypedVal(TypeBulkString, StrVal(d.data)),
                             t.rest, l.hit \/ t.hit)

\* the case '*'
ReadArray(s) ==
    LET l     == ReadLine(s)
        count == Atoi(l.line)
    IN  IF count < 0
        THEN Result("panic", NilPtr, l.rest, l.hit)
        ELSE LET e == ReadElems(l.rest, count, <<>>) IN
             IF e.st = "ok"
             THEN Result(ErrIf(l.err), TypedVal(TypeArray, ArrVal(e.val)), e.rest,
                         l.hit \/ e.hit)
             ELSE Result(e.st, NilPtr, e.rest, l.hit \/ e.hit)

\* a ReadValue that takes a reply of a type it does not know for a line of
\* text
ReadValueLenient(s) ==
    IF s = <<>> THEN Result("err", TypedVal("", NilVal), <<>>, TRUE)
    ELSE LET typ == Head(s)
             r   == Tail(s)
         IN  CASE typ = TypeBulkString -> ReadBulkString(r)
               [] typ = TypeArray      -> ReadArray(r)
               [] OTHER                -> ReadLineValue(typ, r)

ReadValue(s) ==
    IF s = <<>> THEN Result("err", TypedVal("", NilVal), <<>>, TRUE)
    ELSE LET typ == Head(s)
             r   == Tail(s)
         IN  CASE typ \in {TypeSimpleString, TypeError, TypeInt} -> ReadLineValue(typ, r)
               [] typ = TypeBulkString -> ReadBulkString(r)
               [] typ = TypeArray      -> ReadArray(r)
               [] OTHER                -> Result("err", TypedVal(typ, NilVal), r, FALSE)

\* connector.go: what Exec returns for what ReceiveValue returned
ExecResult(r) ==
    IF r.st = "ok" THEN [tv |-> r.val, err |-> "nil"]
    ELSE [tv |-> NilPtr, err |-> "read"]

-----------------------------------------------------------------------------
(* protocal.go: PrintVal, as the bytes it writes *)

\* fmt's %q (strconv.Quote) on the bytes this model uses
QuoteByte(b) ==
    CASE b = CR   -> <<"\\", "r">>
      [] b = LF   -> <<"\\", "n">>
      [] b = "\"" -> <<"\\", "\"">>
      [] b = "\\" -> <<"\\", "\\">>
      [] OTHER    -> <<b>>

RECURSIVE QuoteBytes(_)
QuoteBytes(s) == IF s = <<>> THEN <<>> ELSE QuoteByte(Head(s)) \o QuoteBytes(Tail(s))

Quote(s) == <<"\"">> \o QuoteBytes(s) \o <<"\"">>

NilText     == <<"(", "n", "i", "l", ")">>
ErrorText   == <<"(", "e", "r", "r", "o", "r", ")", " ">>
IntegerText == <<"(", "i", "n", "t", "e", "g", "e", "r", ")", " ">>

RECURSIVE PrintVal(_, _)
RECURSIVE PrintElems(_, _, _)
RECURSIVE PrintElemsZeroBased(_, _, _)

\* a range loop that prints the index i of the loop, not i+1
PrintElemsZeroBased(a, i, raw) ==
    IF i > Len(a) THEN <<>>
    ELSE (IF raw THEN <<>> ELSE Itoa(i - 1) \o <<")", " ">>)
         \o PrintVal(a[i], raw) \o PrintElemsZeroBased(a, i + 1, raw)

\* the range loop of the array case, from element i on
PrintElems(a, i, raw) ==
    IF i > Len(a) THEN <<>>
    ELSE (IF raw THEN <<>> ELSE Itoa(i) \o <<")", " ">>)
         \o PrintVal(a[i], raw) \o PrintElems(a, i + 1, raw)

PrintVal(res, raw) ==
    IF res.Val = NilVal
    THEN IF raw THEN <<LF>> ELSE NilText \o <<LF>>
    ELSE CASE res.Type = TypeSimpleString -> res.Val.s \o <<LF>>
           [] res.Type = TypeBulkString ->
                IF raw THEN res.Val.s \o <<LF>> ELSE Quote(res.Val.s) \o <<LF>>
           [] res.Type = TypeError ->
                IF raw THEN res.Val.s \o <<LF>> ELSE ErrorText \o res.Val.s \o <<LF>>
           [] res.Type = TypeInt ->
                IF raw THEN Itoa(res.Val.n) \o <<LF>>
                ELSE IntegerText \o Itoa(res.Val.n) \o <<LF>>
           [] res.Type = TypeArray -> PrintElems(res.Val.a, 1, raw)
           [] OTHER -> <<>>

-----------------------------------------------------------------------------
(* The server side of the wire: the RESP encoding of a reply tree.  The    *)
(* null array is "*-1\r\n", the null bulk string "$-1\r\n".                *)

CRLF == <<CR, LF>>

RECURSIVE Encode(_)
RECURSIVE EncodeAll(_)

EncodeAll(a) == IF a = <<>> THEN <<>> ELSE Encode(Head(a)) \o EncodeAll(Tail(a))

Encode(tv) ==
    CASE tv.Type \in {TypeSimpleString, TypeError} -> <<tv.Type>> \o tv.Val.s \o CRLF
      [] tv.Type = TypeInt -> <<TypeInt>> \o Itoa(tv.Val.n) \o CRLF
      [] tv.Type = TypeBulkString ->
            IF tv.Val = NilVal THEN <<"$", "-", "1">> \o CRLF
            ELSE <<"$">> \o Itoa(Len(tv.Val.s)) \o CRLF \o tv.Val.s \o CRLF
      [] tv.Type = TypeArray ->
            IF tv.Val = NilVal THEN <<"*", "-", "1">> \o CRLF
            ELSE <<"*">> \o Itoa(Len(tv.Val.a)) \o CRLF \o EncodeAll(tv.Val.a)

-----------------------------------------------------------------------------
(* Reply trees the codec runs draw from *)

MaxCount   == 2   \* elements of an array of leaves
MaxReplies == 2   \* replies concatenated in one stream

SimpleOK  == TypedVal(TypeSimpleString, StrVal(<<"O", "K">>))
ErrorE    == TypedVal(TypeError, StrVal(<<"E">>))
Int12     == TypedVal(TypeInt, IntVal(12))
IntNeg    == TypedVal(TypeInt, IntVal(-1))
NullBulk  == TypedVal(TypeBulkString, NilVal)
EmptyBulk == TypedVal(TypeBulkString, StrVal(<<>>))
BulkA     == TypedVal(TypeBulkString, StrVal(<<"a">>))
BulkLF    == TypedVal(TypeBulkString, StrVal(<<"a", LF, "b">>))
NullArray == TypedVal(TypeArray, NilVal)

Array(a)  == TypedVal(TypeArray, ArrVal(a))

Leaves == {SimpleOK, ErrorE, Int12, IntNeg, NullBulk, EmptyBulk, BulkA, BulkLF}

SeqsUpTo(S, n) == UNION {[1..m -> S] : m \in 0..n}

FlatArrays == {Array(a) : a \in SeqsUpTo(Leaves, MaxCount)} \cup {NullArray}

Inner == {NullBulk, BulkA, NullArray, Array(<<>>), Array(<<BulkA>>),
          Array(<<NullBulk, SimpleOK>>)}

NestedArrays == {Array(<<x>>) : x \in Inner} \cup {Array(<<x, y>>) : x, y \in Inner}

Trees == Leaves \cup FlatArrays \cup NestedArrays

\* replies that follow the first one in a stream
Followers == {SimpleOK, NullBulk, BulkA}

ReplySeqs ==
    {<<t>> \o f : t \in Trees, f \in SeqsUpTo(Followers, MaxReplies - 1)}

Prefixes(s) == {SubSeq(s, 1, n) : n \in 0..Len(s)}

-----------------------------------------------------------------------------
(* Codec runs: a finite stream, decoded by successive ReadValue calls,     *)
(* each decoded value printed in one of the two modes.                     *)

NoPrint == [val |-> NilPtr, raw |-> FALSE, out |-> <<>>]

NoRes == [tv |-> NilPtr, err |-> "nil"]

\* the session part of the state, idle, in a codec run
SessionIdle ==
    /\ args = [mode |-> "none"] /\ istty = FALSE
    /\ conn = "nil" /\ hasReader = TRUE /\ connected = FALSE /\ eof = TRUE
    /\ pc = "codec" /\ caller = "" /\ input = <<>> /\ execRes = NoRes
    /\ loopI = 0 /\ cursor = <<>> /\ page = 0 /\ hist = <<>> /\ ret = "none"

MaxBody == 3   \* bytes after the header of a hand-made bulk string frame

\* bulk string frames as a server may get them wrong: a header declaring n
\* bytes, a body of any length, and what ends the stream after it
BulkFrames ==
    {<<"$">> \o Itoa(n) \o CRLF \o [m \in 1..k |-> "a"] \o tail :
        n \in 1..2, k \in 0..MaxBody,
        tail \in {<<>>, <<CR>>, <<LF>>, CRLF, CRLF \o <<"+", "O", "K", CR, LF>>}}

\* first bytes that are no RESP2 type: the RESP3 types and a letter
UnknownTags == {"%", "~", "_", "#", ",", ">", "x"}

\* what comes before an element of an array: nothing at the top level
ArrayPrefixes ==
    {<<>>, <<"*", "2", CR, LF>>, <<"*", "2", CR, LF, "+", "O", "K", CR, LF>>,
     <<"*", "1", CR, LF, "*", "1", CR, LF>>}

\* a reply of an unknown type, at the top level or as an element
TagFrames ==
    {p \o <<t>> \o tail :
        p \in ArrayPrefixes, t \in UnknownTags,
        tail \in {<<>>, <<"1", CR, LF>>, <<"1", CR, LF, "+", "O", "K", CR, LF>>}}

\* headers whose length is negative, signed, empty or no number
Lengths == {<<"-", "2">>, <<"-", "1">>, <<"+", "1">>, <<"x">>, <<>>, <<"-">>}

LengthFrames ==
    {p \o <<t>> \o n \o CRLF \o tail :
        p \in {<<>>, <<"*", "1", CR, LF>>}, t \in {TypeBulkString, TypeArray},
        n \in Lengths,
        tail \in {<<>>, CRLF, <<"a", CR, LF>>, <<"+", "O", "K", CR, LF>>}}

RawStreams == BulkFrames \cup TagFrames \cup LengthFrames

\* the stream is the encoding of the replies in sent, or a prefix of it, or
\* with no reply sent a hand-made frame
CodecInit ==
    /\ SessionIdle
    /\ \/ /\ sent \in ReplySeqs
          /\ bufReader \in (IF Len(sent) = 1 THEN Prefixes(EncodeAll(sent))
                            ELSE {EncodeAll(sent)})
       \/ /\ sent = <<>>
          /\ bufReader \in RawStreams
    /\ calls = <<>>
    /\ printed = NoPrint

LastCall == calls[Len(calls)]

LastOk == IF calls = <<>> THEN FALSE ELSE LastCall.st = "ok"

\* one ReadValue call on the reader; a caller goes on after a success only
Decode ==
    /\ IF calls = <<>> THEN TRUE ELSE LastOk
    /\ Len(calls) <= Len(sent)
    /\ LET r == ReadValue(bufReader) IN
         /\ calls' = Append(calls, [st |-> r.st, val |-> r.val, from |-> bufReader,
                                  rest |-> r.rest, hit |-> r.hit])
         /\ bufReader' = r.rest
    /\ UNCHANGED <<sent, printed, sessionVars>>

\* PrintVal of the value just decoded
Render(raw) ==
    /\ LastOk
    /\ printed' = [val |-> LastCall.val, raw |-> raw, out |-> PrintVal(LastCall.val, raw)]
    /\ UNCHANGED <<bufReader, sent, calls, sessionVars>>

CodecNext == Decode \/ \E raw \in BOOLEAN : Render(raw)

CodecSpec == CodecInit /\ [][CodecNext]_vars

-----------------------------------------------------------------------------
(* Claims about the codec, checked under CodecSpec *)

IsPrefix(p, s) == Len(p) <= Len(s) /\ SubSeq(s, 1, Len(p)) = p

\* the stream of this run was the whole encoding of the replies in sent
WholeStream == IF calls = <<>> THEN FALSE ELSE calls[1].from = EncodeAll(sent)

\* C1: on a stream that is the concatenation of well-formed replies r1..rk,
\* the i-th ReadValue call returns the value of ri and leaves the reader at
\* the first byte of the next reply.
C1_SuccessiveDecodes ==
    WholeStream =>
        \A i \in 1..Len(calls) :
            i <= Len(sent) =>
                /\ calls[i].st = "ok"
                /\ calls[i].val = sent[i]
                /\ calls[i].rest = EncodeAll(SubSeq(sent, i + 1, Len(sent)))

NullArrayWire == <<"*", "-", "1", CR, LF>>

\* C2: decoding "*-1\r\n" succeeds with a value of kind Array and a null
\* payload, and no sub-value is decoded: the bytes after the header stay.
C2_NullArrayDecodes ==
    \A i \in 1..Len(calls) :
        IsPrefix(NullArrayWire, calls[i].from) =>
            /\ calls[i].st = "ok"
            /\ calls[i].val = NullArray
            /\ calls[i].rest = SubSeq(calls[i].from, 6, Len(calls[i].from))

\* the stream of the first call: the header of the array sent[1], then fewer
\* of its elements than the header declares, then the end of the stream
EndsShortOfCount ==
    /\ calls # <<>> /\ sent # <<>>
    /\ sent[1].Type = TypeArray /\ sent[1].Val # NilVal
    /\ \E k \in 0..(Len(sent[1].Val.a) - 1) :
          calls[1].from = <<"*">> \o Itoa(Len(sent[1].Val.a)) \o CRLF
                          \o EncodeAll(SubSeq(sent[1].Val.a, 1, k))

\* C3: an array header declaring n >= 1 elements followed by fewer than n
\* well-formed elements makes ReadValue return an error and no array; a
\* successful array decode has exactly the declared number of elements.
C3_ArrayCountEnforced ==
    /\ EndsShortOfCount => calls[1].st = "err" /\ calls[1].val = NilPtr
    /\ \A i \in 1..Len(calls) :
          (calls[i].st = "ok" /\ calls[i].val.Type = TypeArray) =>
              Len(calls[i].val.Val.a) = Atoi(ReadLine(Tail(calls[i].from)).line)

NullBulkWire  == <<"$", "-", "1", CR, LF>>
EmptyBulkWire == <<"$", "0", CR, LF, CR, LF>>

Other(tv) == IF tv = NullBulk THEN EmptyBulk ELSE NullBulk

\* the decoding half of C4: length -1 is the null payload, length 0 the
\* empty string, and either leaves the reader at the next reply
BulkNullAndEmptyDecode ==
    \A i \in 1..Len(calls) :
        /\ IsPrefix(NullBulkWire, calls[i].from) =>
              /\ calls[i].st = "ok" /\ calls[i].val = NullBulk
              /\ calls[i].rest = SubSeq(calls[i].from, 6, Len(calls[i].from))
        /\ IsPrefix(EmptyBulkWire, calls[i].from) =>
              /\ calls[i].st = "ok" /\ calls[i].val = EmptyBulk
              /\ calls[i].rest = SubSeq(calls[i].from, 7, Len(calls[i].from))

\* C4 as stated: PrintVal renders the null bulk string and the empty bulk
\* string differently in both modes.
C4_RenderedDifferently ==
    /\ BulkNullAndEmptyDecode
    /\ printed.val \in {NullBulk, EmptyBulk} =>
          printed.out # PrintVal(Other(printed.val), printed.raw)

\* C4 amended: the two decode as claimed; structured mode renders null as
\* "(nil)\n" and the empty string as "\"\"\n"; raw mode renders both as the
\* same single "\n", so only structured mode tells them apart.
C4_NullDistinction ==
    /\ BulkNullAndEmptyDecode
    /\ printed.val = NullBulk =>
          printed.out = (IF printed.raw THEN <<LF>> ELSE NilText \o <<LF>>)
    /\ printed.val = EmptyBulk =>
          printed.out = (IF printed.raw THEN <<LF>> ELSE <<"\"", "\"", LF>>)
    /\ printed.val \in {NullBulk, EmptyBulk} =>
          (printed.out = PrintVal(Other(printed.val), printed.raw)) = printed.raw

\* an empty bulk string and a null bulk string decoded from one stream, the
\* null one rendered in raw mode
C4_Witness ==
    /\ Len(calls) = 2
    /\ calls[1].from = EmptyBulkWire \o NullBulkWire
    /\ calls[1].val = EmptyBulk /\ calls[2].val = NullBulk
    /\ printed.val = NullBulk /\ printed.raw /\ printed.out = <<LF>>

\* C12: ReadValue applied to the RESP encoding of a reply tree returns
\* exactly that tree: same kind, payload, nesting and nulls at every position.
C12_RoundTrip ==
    \A i \in 1..Len(calls) :
        \A t \in Trees :
            calls[i].from = Encode(t) => (calls[i].st = "ok" /\ calls[i].val = t)

\* the round trip of the trees that hold no null array
RECURSIVE HasNullArray(_)
HasNullArray(t) ==
    IF t.Type # TypeArray THEN FALSE
    ELSE IF t.Val = NilVal THEN TRUE
    ELSE \E n \in 1..Len(t.Val.a) : HasNullArray(t.Val.a[n])

C12_RoundTripWithoutNullArray ==
    (Len(calls) >= 1 /\ WholeStream /\ ~HasNullArray(sent[1])) =>
        /\ calls[1].st = "ok" /\ calls[1].val = sent[1]
        /\ Encode(calls[1].val) \o calls[1].rest = calls[1].from

\* the rendering C13 describes, of the value tv in raw or structured mode
RECURSIVE Rendering(_, _)
Rendering(tv, raw) ==
    LET Line(prefix, text) == (IF raw THEN <<>> ELSE prefix) \o text \o <<LF>>
        Elem(a, n) == (IF raw THEN <<>> ELSE Itoa(n) \o <<")", " ">>) \o Rendering(a[n], raw)
        Concat[n \in 0..Len(tv.Val.a)] ==
            IF n = 0 THEN <<>> ELSE Concat[n - 1] \o Elem(tv.Val.a, n)
    IN  CASE tv.Val = NilVal              -> Line(NilText, <<>>)
          [] tv.Type = TypeSimpleString   -> Line(<<>>, tv.Val.s)
          [] tv.Type = TypeBulkString     -> IF raw THEN Line(<<>>, tv.Val.s)
                                             ELSE Line(<<>>, Quote(tv.Val.s))
          [] tv.Type = TypeError          -> Line(ErrorText, tv.Val.s)
          [] tv.Type = TypeInt            -> Line(IntegerText, Itoa(tv.Val.n))
          [] tv.Type = TypeArray          -> Concat[Len(tv.Val.a)]

\* C13: PrintVal writes the rendering of the value in either mode:
\* SimpleString as text and newline; BulkString as text (raw) or quoted text;
\* Error as text or "(error) " and text; Integer as digits or "(integer) "
\* and digits; null as a blank line or "(nil)"; Array as its elements'
\* renderings in order, each after its 1-based index and ") " in structured
\* mode, the index starting at 1 again in every nested array.
C13_PrintValRendering ==
    /\ printed.val # NilPtr => printed.out = Rendering(printed.val, printed.raw)
    /\ \A raw \in BOOLEAN :
          /\ PrintVal(NullArray, raw) = Rendering(NullArray, raw)
          /\ PrintVal(Array(<<NullArray, Array(<<Int12, NullArray>>)>>), raw)
                = (IF raw THEN <<LF, "1", "2", LF, LF>>
                   ELSE <<"1", ")", " ">> \o NilText
                        \o <<LF, "2", ")", " ", "1", ")", " ">> \o IntegerText
                        \o <<"1", "2", LF, "2", ")", " ">> \o NilText \o <<LF>>)

\* a nested array printed in structured mode: the inner index starts at 1
C13_Witness ==
    /\ printed.val = Array(<<BulkA, Array(<<NullBulk, SimpleOK>>)>>)
    /\ ~printed.raw
    /\ printed.out = <<"1", ")", " ", "\"", "a", "\"", LF, "2", ")", " ", "1", ")", " ">>
                     \o NilText \o <<LF, "2", ")", " ", "O", "K", LF>>

\* the call read a bulk string frame whose header declares n > 0 bytes
BulkHeader(c) ==
    IF c.from # <<>> /\ Head(c.from) = TypeBulkString
    THEN ReadLine(Tail(c.from))
    ELSE [line |-> <<>>, rest |-> <<>>, err |-> TRUE, hit |-> TRUE]

Declared(c) == Atoi(BulkHeader(c).line)

\* the body is n payload bytes, a line terminator and what is left
ExactFrame(body, n, left) ==
    /\ Len(body) > n
    /\ \/ body = SubSeq(body, 1, n) \o CRLF \o left
       \/ body = SubSeq(body, 1, n) \o <<LF>> \o left

\* C20: for a header $n with n > 0, ReadValue succeeds only with a payload
\* of exactly n bytes, and consumes exactly the header line, the n payload
\* bytes and the line terminator after them; with fewer than n bytes before
\* the end of the stream it returns an error.
C20_BulkExactLength ==
    \A i \in 1..Len(calls) :
        Declared(calls[i]) > 0 =>
            LET body == BulkHeader(calls[i]).rest
                n    == Declared(calls[i])
            IN  /\ calls[i].st = "ok" =>
                      /\ ExactFrame(body, n, calls[i].rest)
                      /\ calls[i].val = TypedVal(TypeBulkString, StrVal(SubSeq(body, 1, n)))
                /\ Len(body) < n => calls[i].st = "err"

\* what holds of the code: the payload is the first n bytes after the
\* header, and everything up to the next line feed goes with it
C20_BulkPayloadAndLine ==
    \A i \in 1..Len(calls) :
        Declared(calls[i]) > 0 =>
            LET body == BulkHeader(calls[i]).rest
                n    == Declared(calls[i])
                line == ReadLine(SubSeq(body, n + 1, Len(body)))
            IN  /\ calls[i].st = "ok" <=> (Len(body) > n)
                /\ calls[i].st = "ok" =>
                      /\ calls[i].val = TypedVal(TypeBulkString, StrVal(SubSeq(body, 1, n)))
                      /\ calls[i].rest = line.rest
                /\ Len(body) < n => calls[i].st = "err"

\* "$1\r\naaa\r\n" decoded as the payload "a": two bytes dropped unseen
C20_Overlong ==
    /\ Len(calls) = 1 /\ calls[1].from = <<"$", "1", CR, LF, "a", "a", "a", CR, LF>>
    /\ calls[1].st = "ok" /\ calls[1].val = BulkA /\ calls[1].rest = <<>>

KnownTags == {TypeSimpleString, TypeError, TypeInt, TypeBulkString, TypeArray}

\* the call failed with the error of an unknown type, not at the end of the
\* stream, having consumed the bytes up to and with the type byte at
\* position n, and Exec returns the error and no value
UnknownTypeAt(c, n) ==
    /\ c.st = "err" /\ ~c.hit
    /\ c.rest = SubSeq(c.from, n + 1, Len(c.from))

\* C21: when the first byte of a reply, at the top level or of an array
\* element, is none of + - : $ *, ReadValue fails with the error of an
\* unknown response type, Exec returns that error and no value, and for an
\* array element the whole array fails to decode.
C21_UnknownTypeTag ==
    \A i \in 1..Len(calls) :
        LET c == calls[i] IN
        /\ (c.from # <<>> /\ Head(c.from) \notin KnownTags) =>
              /\ UnknownTypeAt(c, 1)
              /\ ExecResult(c) = [tv |-> NilPtr, err |-> "read"]
        /\ \A p \in ArrayPrefixes \ {<<>>} : \A t \in UnknownTags :
              IsPrefix(p \o <<t>>, c.from) =>
                  /\ UnknownTypeAt(c, Len(p) + 1)
                  /\ c.val = NilPtr
                  /\ ExecResult(c) = [tv |-> NilPtr, err |-> "read"]

\* a RESP3 map as the second element of an array: the array fails
C21_Witness ==
    /\ Len(calls) = 1
    /\ calls[1].from = <<"*", "2", CR, LF, "+", "O", "K", CR, LF, "%", "1", CR, LF>>
    /\ calls[1].st = "err" /\ calls[1].val = NilPtr
    /\ calls[1].rest = <<"1", CR, LF>>

\* the declared length of the bulk string or array the call read
DeclaredLength(c) == Atoi(ReadLine(Tail(c.from)).line)

\* C22: on every finite stream, well-formed or not, ReadValue returns a
\* value or an error and never crashes the process, and it produces a null
\* payload only for a declared length of exactly -1.
C22_DecodeTotal ==
    \A i \in 1..Len(calls) :
        /\ calls[i].st \in {"ok", "err"}
        /\ (calls[i].st = "ok" /\ calls[i].val.Val = NilVal) => DeclaredLength(calls[i]) = -1

\* the header $-2 makes ReadValue panic
C22_NegativeBulkLength ==
    \E i \in 1..Len(calls) :
        /\ IsPrefix(<<"$", "-", "2", CR, LF>>, calls[i].from)
        /\ calls[i].st = "panic"

\* what holds of the code: a crash exactly for an array length below 0 or a
\* bulk string length below -1, at the top level of the frames; a null
\* payload only for the bulk string length -1; no number taken for 0
C22_CrashOnNegativeLength ==
    \A i \in 1..Len(calls) :
        LET c == calls[i] IN
        (c.from # <<>> /\ Head(c.from) \in {TypeBulkString, TypeArray}) =>
            /\ (Head(c.from) = TypeArray /\ DeclaredLength(c) < 0) => c.st = "panic"
            /\ (Head(c.from) = TypeBulkString /\ DeclaredLength(c) < -1) => c.st = "panic"
            /\ (Head(c.from) = TypeBulkString /\ DeclaredLength(c) >= -1) => c.st # "panic"
            /\ (c.st = "ok" /\ c.val.Val = NilVal) =>
                  (Head(c.from) = TypeBulkString /\ DeclaredLength(c) = -1)

-----------------------------------------------------------------------------
(* Text *)

UpperCase == <<"A", "B", "C", "D", "E", "F", "G", "H", "I", "J", "K", "L", "M",
               "N", "O", "P", "Q", "R", "S", "T", "U", "V", "W", "X", "Y", "Z">>
LowerCase == <<"a", "b", "c", "d", "e", "f", "g", "h", "i", "j", "k", "l", "m",
               "n", "o", "p", "q", "r", "s", "t", "u", "v", "w", "x", "y", "z">>

FoldByte(b) ==
    IF \E n \in 1..Len(UpperCase) : UpperCase[n] = b
    THEN LowerCase[CHOOSE n \in 1..Len(UpperCase) : UpperCase[n] = b]
    ELSE b

\* strings.EqualFold on ASCII text
EqualFold(a, b) ==
    /\ Len(a) = Len(b)
    /\ \A n \in 1..Len(a) : FoldByte(a[n]) = FoldByte(b[n])

\* strings.Fields: the maximal runs of non-space bytes
RECURSIVE FieldsFrom(_, _, _)
FieldsFrom(str, cur, acc) ==
    IF str = <<>> THEN (IF cur = <<>> THEN acc ELSE Append(acc, cur))
    ELSE IF Head(str) = " "
         THEN FieldsFrom(Tail(str), <<>>, IF cur = <<>> THEN acc ELSE Append(acc, cur))
         ELSE FieldsFrom(Tail(str), Append(cur, Head(str)), acc)

Fields(str) == FieldsFrom(str, <<>>, <<>>)

\* main.go: isCmd, for an input that has a first field
isCmd(in, cmd) == EqualFold(Fields(in)[1], cmd)

InfoWord   == <<"i", "n", "f", "o">>
SelectWord == <<"s", "e", "l", "e", "c", "t">>
OKText     == <<"O", "K">>

\* the command lines the program builds
AuthLine(user, pass) == <<"A", "U", "T", "H", " ">> \o user \o <<" ">> \o pass
SelectLine(db)       == <<"S", "E", "L", "E", "C", "T", " ">> \o Itoa(db)
ScanLine(cur, pattern, count) ==
    <<"S", "C", "A", "N", " ">> \o cur \o <<" ", "M", "A", "T", "C", "H", " ">> \o pattern
    \o <<" ", "C", "O", "U", "N", "T", " ">> \o Itoa(count)

\* err.Error() of a failed write or read, and the messages of Connect,
\* auth and selectDb
ErrorString(err)       == <<err>>
CouldNotConnect        == <<"Could not connect to Redis", LF>>
AuthFailed(val)        == <<"AUTH failed: ">> \o val \o <<LF>>
SelectFailed(db, val)  == <<"SELECT ">> \o Itoa(db) \o <<" failed: ">> \o val \o <<LF>>

-----------------------------------------------------------------------------
(* The runs of the program: main with a command (singleCmd of ExecPrint)   *)
(* or with --scan (singleCmd of the SCAN loop).                            *)

MaxRepeat == 2   \* largest -r
MaxPages  == 2   \* pages with a cursor other than "0" the server returns in a run

GetCmd     == <<"G", "E", "T", " ", "k">>
SelectCmd  == <<"S", "E", "L", "E", "C", "T", " ", "2">>
SelectLow  == <<"s", "e", "l", "e", "c", "t", " ", "1">>
InfoCmd    == <<"I", "N", "F", "O">>

Commands == {GetCmd, SelectCmd, SelectLow, InfoCmd}

\* (Raw, NoRaw, istty)
ModeFlags == {<<FALSE, FALSE, TRUE>>, <<TRUE, FALSE, TRUE>>, <<FALSE, TRUE, FALSE>>}

\* Interval is in half nanoseconds: 1 is a positive interval below 1ns
AllArgs ==
    {[mode |-> m, cmd |-> c, Db |-> d, User |-> <<>>, Pass |-> pw, Repeat |-> r,
      Interval |-> iv, Raw |-> f[1], NoRaw |-> f[2], Pattern |-> <<"*">>, Count |-> 10] :
        m \in {"cmd", "scan"}, c \in Commands, d \in 0..1, pw \in {<<>>, <<"p">>},
        r \in 0..MaxRepeat, iv \in 0..2, f \in ModeFlags}

\* the runs checked: every interval and output mode without a handshake,
\* and every handshake with the default interval and output mode
ArgsSet ==
    {a \in AllArgs :
        /\ a.mode = "scan" => a.cmd = GetCmd
        /\ (a.Pass # <<>> \/ a.Db # 0) =>
              /\ a.Interval = 0
              /\ ~a.Raw /\ ~a.NoRaw}

Init ==
    /\ args \in ArgsSet
    /\ istty \in {f[3] : f \in {g \in ModeFlags : g[1] = args.Raw /\ g[2] = args.NoRaw}}
    /\ conn = "nil" /\ hasReader = FALSE /\ connected = FALSE /\ eof = FALSE
    /\ bufReader = <<>>
    /\ pc = "Connect" /\ caller = "" /\ input = <<>> /\ execRes = NoRes
    /\ loopI = 0 /\ cursor = <<>> /\ page = 0 /\ hist = <<>> /\ ret = "none"
    /\ sent = <<>> /\ calls = <<>> /\ printed = NoPrint

\* events of hist
Out(bytes)       == [e |-> "out", bytes |-> bytes]
Called(by, line) == [e |-> "Exec", by |-> by, line |-> line]
Wrote(bytes, ok) == [e |-> "write", bytes |-> bytes, ok |-> ok]
Read(st, val)    == [e |-> "read", st |-> st, val |-> val]

\* where the program goes on: the next pc, the Exec being called, if any,
\* and the history
Ctl(p, by, line, h) == [pc |-> p, caller |-> by, input |-> line, hist |-> h]

Goto(k) == pc' = k.pc /\ caller' = k.caller /\ input' = k.input /\ hist' = k.hist

\* a call of Connection.Exec
CallExec(by, line, h) == Ctl("Send", by, line, Append(h, Called(by, line)))

\* Connect returns nil: singleCmd goes on to its loop
ConnectReturns(h) == Ctl("run", "", <<>>, Append(h, [e |-> "Connect", err |-> FALSE]))

\* connector.go: selectDb up to its Exec
SelectDb(h) ==
    IF args.Db = 0 THEN ConnectReturns(h)
    ELSE CallExec("selectDb", SelectLine(args.Db), h)

\* connector.go: auth up to its Exec; the password comes from the arguments
Auth(h) ==
    IF args.Pass = <<>> THEN SelectDb(h)
    ELSE CallExec("auth", AuthLine(args.User, args.Pass), h)

\* connector.go: Close
ClosedConn == IF conn = "nil" THEN "nil" ELSE "closed"

\* singleCmd returns: the deferred Close runs
Finish(err, h) ==
    /\ pc' = "done" /\ ret' = (IF err THEN "err" ELSE "nil")
    /\ conn' = ClosedConn /\ hasReader' = FALSE /\ connected' = FALSE
    /\ hist' = h /\ caller' = "" /\ input' = <<>>

\* connector.go: Connect up to the first Exec of the handshake
Connect ==
    /\ pc = "Connect"
    /\ \E dialed \in BOOLEAN :
          IF dialed
          THEN /\ conn' = "open" /\ hasReader' = TRUE /\ connected' = TRUE
               /\ bufReader' = <<>> /\ eof' = FALSE
               /\ Goto(Auth(hist))
               /\ UNCHANGED ret
          ELSE /\ Finish(TRUE, Append(hist, Out(CouldNotConnect)))
               /\ UNCHANGED <<bufReader, eof>>
    /\ UNCHANGED <<args, istty, execRes, loopI, cursor, page, codecVars>>

\* an Exec that goes on to read a reply after a write that failed
SendThenReceive ==
    /\ pc = "Send"
    /\ \E ok \in BOOLEAN :
          /\ pc' = "Receive"
          /\ hist' = Append(hist, Wrote(input \o CRLF, ok))
          /\ UNCHANGED execRes
    /\ UNCHANGED <<args, istty, conn, hasReader, connected, eof, bufReader, caller,
                   input, loopI, cursor, page, ret, codecVars>>

\* an Exec that writes the line once more when the write failed
SendRetries ==
    /\ pc = "Send"
    /\ \E ok \in BOOLEAN :
          LET w == Wrote(input \o CRLF, ok) IN
          IF ok
          THEN /\ pc' = "Receive"
               /\ hist' = Append(hist, w)
               /\ UNCHANGED execRes
          ELSE /\ pc' = "ret"
               /\ hist' = hist \o <<w, w, Out(ErrorString("write"))>>
               /\ execRes' = [tv |-> NilPtr, err |-> "write"]
    /\ UNCHANGED <<args, istty, conn, hasReader, connected, eof, bufReader, caller,
                   input, loopI, cursor, page, ret, codecVars>>

\* connector.go: Exec, its Send
Send ==
    /\ pc = "Send"
    /\ \E ok \in BOOLEAN :
          LET w == Wrote(input \o CRLF, ok) IN
          IF ok
          THEN /\ pc' = "Receive"
               /\ hist' = Append(hist, w)
               /\ UNCHANGED execRes
          ELSE /\ pc' = "ret"
               /\ hist' = hist \o <<w, Out(ErrorString("write"))>>
               /\ execRes' = [tv |-> NilPtr, err |-> "write"]
    /\ UNCHANGED <<args, istty, conn, hasReader, connected, eof, bufReader, caller,
                   input, loopI, cursor, page, ret, codecVars>>

-----------------------------------------------------------------------------
(* The server: what it sends in answer to a command line, and whether it   *)
(* closes the connection after it.                                         *)

ErrorOK == TypedVal(TypeError, StrVal(OKText))
BulkB   == TypedVal(TypeBulkString, StrVal(<<"b">>))

ScanPage(cur, keys) == Array(<<TypedVal(TypeBulkString, StrVal(cur)), Array(keys)>>)

Cursors  == {<<"0">>, <<"7">>}
KeyLists == {<<>>, <<BulkA, BulkB>>}

ScanPages ==
    {ScanPage(c, k) : c \in (IF page >= MaxPages THEN {<<"0">>} ELSE Cursors),
                      k \in KeyLists}

ReplyTrees(line) ==
    LET w == Fields(line)[1] IN
    CASE EqualFold(w, <<"a", "u", "t", "h">>) -> {SimpleOK, ErrorE}
      [] EqualFold(w, SelectWord)             -> {SimpleOK, ErrorE, ErrorOK, NullBulk}
      [] EqualFold(w, InfoWord)               -> {BulkLF, NullBulk, ErrorE}
      [] EqualFold(w, <<"s", "c", "a", "n">>) -> ScanPages \cup {ErrorE, Array(<<BulkA>>)}
      [] OTHER                                -> {BulkA, NullBulk, Int12, ErrorE, NullArray}

\* a reply of a type this client does not know (a RESP3 map header)
UnknownReply == <<"%", "1", CR, LF>>

ServerSends(line) ==
    IF eof THEN {[bytes |-> <<>>, close |-> TRUE]}
    ELSE {[bytes |-> Encode(t), close |-> FALSE] : t \in ReplyTrees(line)}
         \cup {[bytes |-> UnknownReply, close |-> FALSE],
               [bytes |-> <<>>, close |-> TRUE],
               [bytes |-> <<"$", "5", CR, LF, "a">>, close |-> TRUE]}

-----------------------------------------------------------------------------

\* connector.go: Exec, its ReceiveValue: ReadValue on what is buffered and
\* what the server sends; a read that runs into the end of an open stream
\* blocks
Receive ==
    /\ pc = "Receive"
    /\ \E s \in ServerSends(input) :
          LET r == ReadValue(bufReader \o s.bytes) IN
          /\ eof' = (eof \/ s.close)
          /\ IF r.hit /\ ~eof'
             THEN /\ pc' = "blocked"
                  /\ bufReader' = bufReader \o s.bytes
                  /\ UNCHANGED <<hist, execRes>>
             ELSE /\ bufReader' = r.rest
                  /\ CASE r.st = "panic" ->
                            /\ pc' = "panic"
                            /\ hist' = Append(hist, Read("panic", NilPtr))
                            /\ UNCHANGED execRes
                       [] r.st = "err" ->
                            /\ pc' = "ret"
                            /\ hist' = hist \o <<Read("err", NilPtr),
                                                 Out(ErrorString("read"))>>
                            /\ execRes' = ExecResult(r)
                       [] r.st = "ok" ->
                            /\ pc' = "ret"
                            /\ hist' = Append(hist, Read("ok", r.val))
                            /\ execRes' = ExecResult(r)
    /\ UNCHANGED <<args, istty, conn, hasReader, connected, caller, input, loopI,
                   cursor, page, ret, codecVars>>

\* an auth whose Error reply makes Connect skip selectDb as well
AuthRetAborts ==
    /\ pc = "ret" /\ caller = "auth"
    /\ IF execRes.err # "nil"
       THEN Goto(ConnectReturns(Append(hist, Out(ErrorString(execRes.err)))))
       ELSE IF execRes.tv.Type = TypeError
       THEN Goto(ConnectReturns(Append(hist, Out(AuthFailed(execRes.tv.Val.s)))))
       ELSE Goto(SelectDb(hist))
    /\ UNCHANGED <<args, istty, conn, hasReader, connected, eof, bufReader, execRes,
                   loopI, cursor, page, ret, codecVars>>

\* connector.go: auth after its Exec, then selectDb up to its Exec; an
\* error of auth makes Connect skip selectDb
AuthRet ==
    /\ pc = "ret" /\ caller = "auth"
    /\ IF execRes.err # "nil"
       THEN Goto(ConnectReturns(Append(hist, Out(ErrorString(execRes.err)))))
       ELSE IF execRes.tv.Type = TypeError
       THEN Goto(SelectDb(Append(hist, Out(AuthFailed(execRes.tv.Val.s)))))
       ELSE Goto(SelectDb(hist))
    /\ UNCHANGED <<args, istty, conn, hasReader, connected, eof, bufReader, execRes,
                   loopI, cursor, page, ret, codecVars>>

\* a selectDb that keeps the index after an Error reply
SelectDbRetKeepsDb ==
    /\ pc = "ret" /\ caller = "selectDb"
    /\ IF execRes.err # "nil"
       THEN Goto(ConnectReturns(Append(hist, Out(ErrorString(execRes.err)))))
       ELSE IF execRes.tv.Type = TypeError
       THEN Goto(ConnectReturns(
                    Append(hist, Out(SelectFailed(args.Db, execRes.tv.Val.s)))))
       ELSE Goto(ConnectReturns(hist))
    /\ UNCHANGED <<args, istty, conn, hasReader, connected, eof, bufReader, execRes,
                   loopI, cursor, page, ret, codecVars>>

\* connector.go: selectDb after its Exec
SelectDbRet ==
    /\ pc = "ret" /\ caller = "selectDb"
    /\ IF execRes.err # "nil"
       THEN /\ Goto(ConnectReturns(Append(hist, Out(ErrorString(execRes.err)))))
            /\ UNCHANGED args
       ELSE IF execRes.tv.Type = TypeError
       THEN /\ Goto(ConnectReturns(
                    Append(hist, Out(SelectFailed(args.Db, execRes.tv.Val.s)))))
            /\ args' = [args EXCEPT !.Db = 0]
       ELSE /\ Goto(ConnectReturns(hist))
            /\ UNCHANGED args
    /\ UNCHANGED <<istty, conn, hasReader, connected, eof, bufReader, execRes,
                   loopI, cursor, page, ret, codecVars>>

\* main.go: singleCmd's time.Duration of the interval, in nanoseconds
Dua == args.Interval \div 2

\* a loop body that sleeps after every execution, the last one too
SleepsAfterEvery(n) == Dua > 0

\* main.go: whether the loop body with i = n sleeps after its execution
SleepsAfter(n) == n < args.Repeat - 1 /\ Dua > 0

\* a loop that goes on to the next execution after a failed one
ExeReturnedIgnoresError(err, h) ==
    IF args.Repeat = 0
    THEN /\ Finish(err, h)
         /\ UNCHANGED loopI
    ELSE /\ hist' = (IF SleepsAfter(loopI) THEN Append(h, [e |-> "Sleep"]) ELSE h)
         /\ loopI' = loopI + 1
         /\ pc' = "run" /\ caller' = "" /\ input' = <<>>
         /\ UNCHANGED <<conn, hasReader, connected, ret>>

\* exeFunc has returned to singleCmd: the rest of the loop body, or the
\* return of singleCmd
ExeReturned(err, h) ==
    IF args.Repeat = 0 \/ err
    THEN /\ Finish(err, h)
         /\ UNCHANGED loopI
    ELSE /\ hist' = (IF SleepsAfter(loopI) THEN Append(h, [e |-> "Sleep"]) ELSE h)
         /\ loopI' = loopI + 1
         /\ pc' = "run" /\ caller' = "" /\ input' = <<>>
         /\ UNCHANGED <<conn, hasReader, connected, ret>>

\* a run-time panic ends the program
Panic(h) ==
    /\ pc' = "panic" /\ hist' = h
    /\ UNCHANGED <<conn, hasReader, connected, ret, caller, input, loopI>>

\* main.go: singleCmd after Connect has returned nil: the loop head, and
\* exeFunc up to its first Exec
Run ==
    /\ pc = "run"
    /\ IF args.Repeat = 0 \/ loopI < args.Repeat
       THEN LET h == Append(hist, [e |-> "exeFunc"]) IN
            IF args.mode = "scan"
            THEN /\ cursor' = <<"0">>
                 /\ Goto(CallExec("scan", ScanLine(<<"0">>, args.Pattern, args.Count), h))
                 /\ UNCHANGED <<page, conn, hasReader, connected, ret>>
            ELSE /\ Goto(CallExec("ExecPrint", args.cmd, h))
                 /\ UNCHANGED <<cursor, page, conn, hasReader, connected, ret>>
       ELSE /\ Finish(FALSE, hist)
            /\ UNCHANGED <<cursor, page>>
    /\ UNCHANGED <<args, istty, eof, bufReader, execRes, loopI, codecVars>>

\* connector.go: Connection.PrintVal's choice of the mode
RawMode == IF args.NoRaw THEN FALSE ELSE args.Raw \/ ~istty

\* the address part of the prompt
Addr == <<"host:port">>

\* connector.go: CliPrefix
CliPrefix ==
    IF ~connected THEN <<"not connected">>
    ELSE IF args.Db # 0 THEN Addr \o <<"[">> \o Itoa(args.Db) \o <<"]">>
    ELSE Addr

\* an ExecPrint that takes the index of a SELECT whatever the reply's text
ExecPrintBodyAnyReply(line, tv) ==
    LET info    == isCmd(line, InfoWord)
        select  == isCmd(line, SelectWord)
        isStr   == tv.Val.k = "string"
        written == IF info THEN (IF isStr THEN <<Out(tv.Val.s)>> ELSE <<>>)
                   ELSE <<Out(PrintVal(tv, RawMode))>>
        isOK    == select /\ isStr
    IN  [panic |-> \/ (info /\ ~isStr)
                   \/ (select /\ ~isStr)
                   \/ (isOK /\ Len(Fields(line)) < 2),
         out   |-> written,
         db    |-> IF isOK /\ Len(Fields(line)) >= 2 THEN Atoi(Fields(line)[2])
                   ELSE args.Db]

\* an ExecPrint that resets the database index on an Error reply to SELECT,
\* as selectDb does
ExecPrintBodyResets(line, tv) ==
    LET info    == isCmd(line, InfoWord)
        select  == isCmd(line, SelectWord)
        isStr   == tv.Val.k = "string"
        written == IF info THEN (IF isStr THEN <<Out(tv.Val.s)>> ELSE <<>>)
                   ELSE <<Out(PrintVal(tv, RawMode))>>
        isOK    == IF select /\ isStr THEN tv.Val.s = OKText ELSE FALSE
    IN  [panic |-> \/ (info /\ ~isStr)
                   \/ (select /\ ~isStr)
                   \/ (isOK /\ Len(Fields(line)) < 2),
         out   |-> written,
         db    |-> IF select /\ tv.Type = TypeError THEN 0
                   ELSE IF isOK /\ Len(Fields(line)) >= 2 THEN Atoi(Fields(line)[2])
                   ELSE args.Db]

\* connector.go: ExecPrint after a successful Exec: what it writes, the
\* database index it leaves, and whether a type assertion or an index
\* panics on the way
ExecPrintBody(line, tv) ==
    LET info    == isCmd(line, InfoWord)
        select  == isCmd(line, SelectWord)
        isStr   == tv.Val.k = "string"
        written == IF info THEN (IF isStr THEN <<Out(tv.Val.s)>> ELSE <<>>)
                   ELSE <<Out(PrintVal(tv, RawMode))>>
        isOK    == IF select /\ isStr THEN tv.Val.s = OKText ELSE FALSE
    IN  [panic |-> \/ (info /\ ~isStr)
                   \/ (select /\ ~isStr)
                   \/ (isOK /\ Len(Fields(line)) < 2),
         out   |-> written,
         db    |-> IF isOK /\ Len(Fields(line)) >= 2 THEN Atoi(Fields(line)[2])
                   ELSE args.Db]

\* connector.go: ExecPrint after its Exec, and singleCmd on its return
ExecPrintRet ==
    /\ pc = "ret" /\ caller = "ExecPrint"
    /\ IF execRes.err # "nil"
       THEN /\ ExeReturned(TRUE, hist)
            /\ UNCHANGED args
       ELSE LET b == ExecPrintBody(input, execRes.tv) IN
            IF b.panic
            THEN /\ Panic(hist \o b.out)
                 /\ UNCHANGED args
            ELSE /\ args' = [args EXCEPT !.Db = b.db]
                 /\ ExeReturned(FALSE, hist \o b.out)
    /\ UNCHANGED <<istty, eof, bufReader, execRes, cursor, page, codecVars>>

\* PrintVal of each item, last item first
RECURSIVE PrintItemsReversed(_, _)
PrintItemsReversed(items, raw) ==
    IF items = <<>> THEN <<>>
    ELSE PrintItemsReversed(Tail(items), raw) \o <<Out(PrintVal(Head(items), raw))>>

\* PrintVal of each item, in order
RECURSIVE PrintItems(_, _)
PrintItems(items, raw) ==
    IF items = <<>> THEN <<>>
    ELSE <<Out(PrintVal(Head(items), raw))>> \o PrintItems(Tail(items), raw)

\* a scan loop that tests the cursor of the request instead of the reply's
ScanBodyStale(tv) ==
    LET isArr   == tv.Val.k = "slice"
        hasKeys == IF isArr /\ Len(tv.Val.a) >= 2
                   THEN tv.Val.a[2].Val.k = "slice" ELSE FALSE
        hasCur  == IF hasKeys THEN tv.Val.a[1].Val.k = "string" ELSE FALSE
    IN  [panic  |-> ~hasCur,
         out    |-> IF hasKeys THEN PrintItems(tv.Val.a[2].Val.a, RawMode) ELSE <<>>,
         cursor |-> cursor]

\* main.go: the body of scan's loop after a successful Exec: the type
\* assertions and indexing of the reply, the keys printed, the new cursor
ScanBody(tv) ==
    LET isArr   == tv.Val.k = "slice"
        hasKeys == IF isArr /\ Len(tv.Val.a) >= 2
                   THEN tv.Val.a[2].Val.k = "slice" ELSE FALSE
        hasCur  == IF hasKeys THEN tv.Val.a[1].Val.k = "string" ELSE FALSE
    IN  [panic  |-> ~hasCur,
         out    |-> IF hasKeys THEN PrintItems(tv.Val.a[2].Val.a, RawMode) ELSE <<>>,
         cursor |-> IF hasCur THEN tv.Val.a[1].Val.s ELSE cursor]

\* main.go: scan's loop after its Exec: the next SCAN, or the return
ScanRet ==
    /\ pc = "ret" /\ caller = "scan"
    /\ IF execRes.err # "nil"
       THEN /\ ExeReturned(TRUE, hist)
            /\ UNCHANGED <<cursor, page>>
       ELSE LET b == ScanBody(execRes.tv) IN
            IF b.panic
            THEN /\ Panic(hist \o b.out)
                 /\ UNCHANGED <<cursor, page>>
            ELSE /\ cursor' = b.cursor
                 /\ IF b.cursor = <<"0">>
                    THEN /\ ExeReturned(FALSE, hist \o b.out)
                         /\ UNCHANGED page
                    ELSE /\ page' = page + 1
                         /\ Goto(CallExec("scan",
                                 ScanLine(b.cursor, args.Pattern, args.Count),
                                 hist \o b.out))
                         /\ UNCHANGED <<conn, hasReader, connected, ret, loopI>>
    /\ UNCHANGED <<args, istty, eof, bufReader, execRes, codecVars>>

Next == Connect \/ Send \/ Receive \/ AuthRet \/ SelectDbRet \/ Run
        \/ ExecPrintRet \/ ScanRet

Spec == Init /\ [][Next]_vars

\* one scan on a connection without handshake, which goes on until it
\* returns, panics or blocks in a read
ScanInit ==
    /\ Init /\ args.mode = "scan"
    /\ args.Pass = <<>> /\ args.Db = 0 /\ args.Repeat = 1 /\ args.Interval = 0

ScanNext == Connect \/ Send \/ Receive \/ Run \/ ScanRet

ScanSpec == ScanInit /\ [][ScanNext]_vars /\ WF_vars(ScanNext)

-----------------------------------------------------------------------------
(* The Connection driven through Connect and Close alone, as the            *)
(* interactive mode drives it: Connect at the start and again from the      *)
(* executor, Close on an interrupt and when interactive returns.  No        *)
(* password and database 0: auth and selectDb return at once.               *)

MaxCalls == 5   \* calls of Connect and Close in a run

ConnInit ==
    /\ args \in {a \in ArgsSet : /\ a.mode = "cmd" /\ a.cmd = GetCmd
                                 /\ a.Pass = <<>> /\ a.Db = 0
                                 /\ a.Repeat = 1 /\ a.Interval = 0
                                 /\ ~a.Raw /\ ~a.NoRaw}
    /\ istty = TRUE
    /\ conn = "nil" /\ hasReader = FALSE /\ connected = FALSE /\ eof = FALSE
    /\ bufReader = <<>>
    /\ pc = "interactive" /\ caller = "" /\ input = <<>> /\ execRes = NoRes
    /\ loopI = 0 /\ cursor = <<>> /\ page = 0 /\ hist = <<>> /\ ret = "none"
    /\ sent = <<>> /\ calls = <<>> /\ printed = NoPrint

CallsLeft == Len(SelectSeq(hist, LAMBDA ev : ev.e \in {"Connect", "Close"})) < MaxCalls

\* a Connect that does not close the old connection first
ConnectCallKeepsOld ==
    /\ pc = "interactive" /\ CallsLeft
    /\ \E dialed \in BOOLEAN :
          IF dialed
          THEN /\ conn' = "open" /\ hasReader' = TRUE /\ connected' = TRUE
               /\ bufReader' = <<>> /\ eof' = FALSE
               /\ hist' = ConnectReturns(hist).hist
          ELSE /\ UNCHANGED <<conn, hasReader, connected>>
               /\ hist' = hist \o <<Out(CouldNotConnect), [e |-> "Connect", err |-> TRUE]>>
               /\ UNCHANGED <<bufReader, eof>>
    /\ UNCHANGED <<args, istty, pc, caller, input, execRes, loopI, cursor, page, ret,
                   codecVars>>

\* connector.go: Connect, whole: Close, the dial, and on success the new
\* connection and the handshake
ConnectCall ==
    /\ pc = "interactive" /\ CallsLeft
    /\ \E dialed \in BOOLEAN :
          IF dialed
          THEN /\ conn' = "open" /\ hasReader' = TRUE /\ connected' = TRUE
               /\ bufReader' = <<>> /\ eof' = FALSE
               /\ hist' = Auth(hist).hist
          ELSE /\ conn' = ClosedConn /\ hasReader' = FALSE /\ connected' = FALSE
               /\ hist' = hist \o <<Out(CouldNotConnect), [e |-> "Connect", err |-> TRUE]>>
               /\ UNCHANGED <<bufReader, eof>>
    /\ UNCHANGED <<args, istty, pc, caller, input, execRes, loopI, cursor, page, ret,
                   codecVars>>

\* connector.go: Close
Close ==
    /\ pc = "interactive" /\ CallsLeft
    /\ conn' = ClosedConn /\ hasReader' = FALSE /\ connected' = FALSE
    /\ hist' = Append(hist, [e |-> "Close"])
    /\ UNCHANGED <<args, istty, eof, bufReader, pc, caller, input, execRes, loopI,
                   cursor, page, ret, codecVars>>

ConnNext == ConnectCall \/ Close

ConnSpec == ConnInit /\ [][ConnNext]_vars

-----------------------------------------------------------------------------
(* The interactive mode (main.go: interactive, executor).  Two threads     *)
(* share the Connection, with no lock between them:                        *)
(*   - the prompt goroutine, at pc: it calls Connect, and then the         *)
(*     executor for every line the user enters;                            *)
(*   - the main thread, at ret: it waits for the interrupt ("none"), and   *)
(*     then returns through the deferred Close: the connection closed      *)
(*     ("closing"), the reader cleared ("cleared"), the flag reset and     *)
(*     interactive returned ("nil"), which ends the process.               *)
(* Each access of a field of the Connection is a step of its own where the *)
(* two threads can interleave.  No password and database 0.                *)

MaxLines == 2   \* lines the user enters in a run

InteractiveInit ==
    /\ args \in {a \in ArgsSet : /\ a.mode = "cmd" /\ a.cmd = GetCmd
                                 /\ a.Pass = <<>> /\ a.Db = 0
                                 /\ a.Repeat = 1 /\ a.Interval = 0
                                 /\ ~a.Raw /\ ~a.NoRaw}
    /\ istty = TRUE
    /\ conn = "nil" /\ hasReader = FALSE /\ connected = FALSE /\ eof = FALSE
    /\ bufReader = <<>>
    /\ pc = "Connect" /\ caller = "" /\ input = <<>> /\ execRes = NoRes
    /\ loopI = 0 /\ cursor = <<>> /\ page = 0 /\ hist = <<>> /\ ret = "none"
    /\ sent = <<>> /\ calls = <<>> /\ printed = NoPrint

\* the process is running: main has not returned, and no goroutine has
\* panicked
Alive == ret # "nil" /\ pc # "panic"

\* the lines the user enters
Lines == {GetCmd, SelectCmd}

\* connector.go: Connect, its Close and its dial
PromptDial ==
    /\ Alive /\ pc = "Connect"
    /\ conn' = ClosedConn /\ hasReader' = FALSE /\ connected' = FALSE
    /\ eof' = (eof \/ conn # "nil")
    /\ \E dialed \in BOOLEAN :
          IF dialed
          THEN /\ pc' = "dialed"
               /\ UNCHANGED <<hist, caller, input>>
          ELSE /\ pc' = "prompt" /\ caller' = "" /\ input' = <<>>
               /\ hist' = hist \o <<Out(CouldNotConnect), [e |-> "Connect", err |-> TRUE]>>
    /\ UNCHANGED <<args, istty, bufReader, execRes, loopI, cursor, page, ret, codecVars>>

\* connector.go: Connect after a dial that succeeded: the new connection
\* and the handshake; then the prompt, or the executor's ExecPrint
PromptConnected ==
    /\ Alive /\ pc = "dialed"
    /\ conn' = "open" /\ hasReader' = TRUE /\ connected' = TRUE
    /\ bufReader' = <<>> /\ eof' = FALSE
    /\ LET h == Auth(hist).hist IN
       IF caller = "executor"
       THEN Goto(CallExec("ExecPrint", input, h))
       ELSE Goto(Ctl("prompt", "", <<>>, h))
    /\ UNCHANGED <<args, istty, execRes, loopI, cursor, page, ret, codecVars>>

\* main.go: executor up to Connect or to ExecPrint's Exec
Executor ==
    /\ Alive /\ pc = "prompt"
    /\ Cardinality({j \in 1..Len(hist) : hist[j].e = "executor"}) < MaxLines
    /\ \E line \in Lines :
          LET h == Append(hist, [e |-> "executor"]) IN
          IF ~connected
          THEN Goto(Ctl("Connect", "executor", line, h))
          ELSE Goto(CallExec("ExecPrint", line, h))
    /\ UNCHANGED <<args, istty, conn, hasReader, connected, eof, bufReader, execRes,
                   loopI, cursor, page, ret, codecVars>>

\* connector.go: Send; a write on a connection that is closed fails
PromptSend ==
    /\ Alive
    /\ Send
    /\ conn = "open" \/ pc' = "ret"

\* connector.go: ReceiveValue; ReadValue on a nil reader dereferences it
PromptReceive ==
    /\ Alive
    /\ IF hasReader
       THEN Receive
       ELSE /\ pc = "Receive"
            /\ pc' = "panic"
            /\ hist' = Append(hist, Read("panic", NilPtr))
            /\ UNCHANGED <<args, istty, conn, hasReader, connected, eof, bufReader,
                           caller, input, execRes, loopI, cursor, page, ret, codecVars>>

\* connector.go: ExecPrint after its Exec, and the executor on its return
PromptExecPrintRet ==
    /\ Alive /\ pc = "ret" /\ caller = "ExecPrint"
    /\ IF execRes.err # "nil"
       THEN /\ Goto(Ctl("prompt", "", <<>>, Append(hist, Out(ErrorString(execRes.err)))))
            /\ UNCHANGED args
       ELSE LET b == ExecPrintBody(input, execRes.tv) IN
            /\ args' = (IF b.panic THEN args ELSE [args EXCEPT !.Db = b.db])
            /\ Goto(Ctl(IF b.panic THEN "panic" ELSE "prompt", "", <<>>, hist \o b.out))
    /\ UNCHANGED <<istty, conn, hasReader, connected, eof, bufReader, execRes, loopI,
                   cursor, page, ret, codecVars>>

\* main.go: interactive is interrupted; connector.go: Close closes the
\* connection, which ends the stream
Interrupt ==
    /\ Alive /\ ret = "none"
    /\ ret' = "closing"
    /\ conn' = ClosedConn /\ eof' = (eof \/ conn # "nil")
    /\ UNCHANGED <<args, istty, hasReader, connected, bufReader, pc, caller, input,
                   execRes, loopI, cursor, page, hist, codecVars>>

\* connector.go: Close clears the reader
CloseClearsReader ==
    /\ Alive /\ ret = "closing"
    /\ ret' = "cleared"
    /\ hasReader' = FALSE
    /\ UNCHANGED <<args, istty, conn, connected, eof, bufReader, pc, caller, input,
                   execRes, loopI, cursor, page, hist, codecVars>>

\* connector.go: Close resets the flag; interactive returns
CloseReturns ==
    /\ Alive /\ ret = "cleared"
    /\ ret' = "nil"
    /\ connected' = FALSE
    /\ UNCHANGED <<args, istty, conn, hasReader, eof, bufReader, pc, caller, input,
                   execRes, loopI, cursor, page, hist, codecVars>>

InteractiveNext ==
    PromptDial \/ PromptConnected \/ Executor \/ PromptSend \/ PromptReceive
    \/ PromptExecPrintRet \/ Interrupt \/ CloseClearsReader \/ CloseReturns

InteractiveSpec == InteractiveInit /\ [][InteractiveNext]_vars

-----------------------------------------------------------------------------
(* Claims about the session, checked under Spec *)

Idx(kinds)   == {j \in 1..Len(hist) : hist[j].e \in kinds}
Last(S)      == IF S = {} THEN 0 ELSE CHOOSE j \in S : \A m \in S : m <= j
Before(S, j) == {m \in S : m < j}
After(S, j)  == {m \in S : m > j}
Count(kinds) == Cardinality(Idx(kinds))

IsSelect(line) == isCmd(line, SelectWord)

\* ExecPrint is about to handle the Error-typed reply to a SELECT
SelectGotError ==
    /\ pc = "ret" /\ caller = "ExecPrint" /\ execRes.err = "nil"
    /\ IsSelect(input) /\ execRes.tv.Type = TypeError

SelectArg == Atoi(Fields(input)[2])

\* C5: after ExecPrint of SELECT n, n other than the tracked index, whose
\* reply is an Error-typed value, the tracked database index is 0.
C5_SelectErrorResetsDb ==
    [][(SelectGotError /\ SelectArg # args.Db) => args'.Db = 0]_vars

\* C5 amended: after ExecPrint of SELECT n whose reply is an Error-typed
\* value, the tracked database index keeps its previous value (it is not
\* reset to 0), unless the text of the error is exactly OK, which ExecPrint
\* takes for success: then the index is n.
C5_SelectErrorKeepsDb ==
    [][SelectGotError =>
          args'.Db = (IF execRes.tv.Val.s = OKText THEN SelectArg ELSE args.Db)]_vars

\* the run connected to database 1, executed SELECT 2, got an error, and
\* still tracks database 1
C5_Witness ==
    /\ pc = "done" /\ ret = "nil" /\ args.cmd = SelectCmd /\ args.Repeat = 1
    /\ hist[Last(Idx({"read"}))].val = ErrorE
    /\ hist[Last(Idx({"Exec"}))].by = "ExecPrint"
    /\ args.Db = 1

Returned == pc = "done" /\ ret = "nil"

Max(a, b) == IF a >= b THEN a ELSE b

IsPage(tv) ==
    IF tv.Val.k = "slice" /\ tv.Type = TypeArray
    THEN IF Len(tv.Val.a) = 2
         THEN tv.Val.a[1].Val.k = "string" /\ tv.Val.a[2].Val.k = "slice"
         ELSE FALSE
    ELSE FALSE

PageCursor(tv) == tv.Val.a[1].Val.s

ScanCalls == {j \in Idx({"Exec"}) : hist[j].by = "scan"}

ScanRequest(cur) == ScanLine(cur, args.Pattern, args.Count)

\* the first event of the given kinds after position j, 0 if there is none
NextOf(kinds, j) ==
    LET S == After(Idx(kinds), j) IN
    IF S = {} THEN 0 ELSE CHOOSE m \in S : \A n \in S : m <= n

\* every SCAN request carries "0" when it is the first of its scan, and
\* otherwise the cursor of the reply before it, which is not "0"
C7_Requests ==
    \A j \in ScanCalls :
        LET p == Last(Before(Idx({"exeFunc", "read"}), j)) IN
        /\ p > 0
        /\ IF hist[p].e = "exeFunc"
           THEN hist[j].line = ScanRequest(<<"0">>)
           ELSE /\ hist[p].st = "ok" /\ IsPage(hist[p].val)
                /\ PageCursor(hist[p].val) # <<"0">>
                /\ hist[j].line = ScanRequest(PageCursor(hist[p].val))

\* the loop goes on after every page whose cursor is not "0"
C7_GoesOn ==
    \A j \in Idx({"read"}) :
        LET c == Last(Before(Idx({"Exec"}), j))
            n == NextOf({"Exec", "exeFunc", "Sleep"}, j)
        IN  (/\ hist[c].by = "scan" /\ hist[j].st = "ok"
             /\ (IF IsPage(hist[j].val) THEN PageCursor(hist[j].val) # <<"0">> ELSE FALSE))
            => IF n = 0 THEN pc = "ret" ELSE hist[n].e = "Exec"

Terminated == pc \in {"done", "panic", "blocked"}

\* no dial, write or read failed, and every reply was a page
AllPages ==
    /\ Idx({"Connect"}) # {}
    /\ \A j \in Idx({"write"}) : hist[j].ok
    /\ \A j \in Idx({"read"}) : hist[j].st = "ok" /\ IsPage(hist[j].val)

C7_Succeeds == (args.mode = "scan" /\ Terminated /\ AllPages) => Returned

\* C7: SCAN pagination: the first request uses cursor "0", every later
\* request uses the cursor text of the reply before it, and the loop stops
\* exactly after the first reply whose cursor text is "0"; when the server
\* comes to return cursor "0" and no I/O fails, scan terminates with success.
C7_ScanPagination ==
    /\ [](C7_Requests /\ C7_GoesOn /\ C7_Succeeds)
    /\ (args.mode = "scan") ~> Terminated

\* a scan of two pages has returned: its second request carried cursor 7
C7_Witness ==
    /\ Returned /\ args.mode = "scan" /\ AllPages
    /\ \E j \in ScanCalls : hist[j].line = ScanRequest(<<"7">>)

HandshakeCalls(by) == {j \in Idx({"Exec"}) : hist[j].by = by}

UserCalls == {j \in Idx({"Exec"}) : hist[j].by \in {"ExecPrint", "scan"}}

\* the events of the Exec called at position j
CallEvents(j) ==
    LET n == NextOf({"Exec", "Connect", "exeFunc"}, j) IN
    SubSeq(hist, j + 1, IF n = 0 THEN Len(hist) ELSE n - 1)

Has(seq, ev) == \E m \in 1..Len(seq) : seq[m] = ev

\* the Exec called at position j has returned a reply
Replied(j) == \E m \in 1..Len(CallEvents(j)) :
                  IF CallEvents(j)[m].e = "read" THEN CallEvents(j)[m].st = "ok" ELSE FALSE

\* AUTH goes before SELECT, both go before Connect returns and every
\* command of the user after it
C8_Order ==
    /\ \A j \in HandshakeCalls("auth") :
          /\ Before(HandshakeCalls("selectDb"), j) = {}
          /\ Before(Idx({"Connect"}), j) = {}
    /\ \A j \in HandshakeCalls("selectDb") : Before(Idx({"Connect"}), j) = {}
    /\ \A j \in UserCalls : Before(Idx({"Connect"}), j) # {}
    /\ Idx({"Connect"}) # {} =>
          (HandshakeCalls("auth") # {} <=> args.Pass # <<>>)

\* a failed step of the handshake is reported, and Connect returns nil with
\* the session connected
C8_Reported ==
    /\ \A j \in HandshakeCalls("auth") \cup HandshakeCalls("selectDb") :
          (Idx({"Connect"}) # {}) =>
             LET evs == CallEvents(j)
                 rd  == SelectSeq(evs, LAMBDA ev : ev.e = "read")
             IN  IF ~Replied(j)
                 THEN \E err \in {"write", "read"} : Has(evs, Out(ErrorString(err)))
                 ELSE rd[1].val.Type = TypeError =>
                         \/ /\ hist[j].by = "auth"
                            /\ Has(evs, Out(AuthFailed(rd[1].val.Val.s)))
                         \/ /\ hist[j].by = "selectDb"
                            /\ \E db \in 0..1 : Has(evs, Out(SelectFailed(db, rd[1].val.Val.s)))
    /\ \A j \in Idx({"Connect"}) : ~hist[j].err
    /\ (Idx({"Connect"}) # {} /\ pc # "done") => (connected /\ conn = "open")

\* Connect has just returned
JustConnected == pc = "run" /\ hist # <<>> /\ hist[Len(hist)].e = "Connect"

\* C8: Connect sends AUTH, when a password is configured, before SELECT,
\* when the database index is not zero, and both before any user command;
\* whatever the outcome of AUTH or SELECT the failure is reported, the
\* session ends Connected and Connect reports success, and neither step's
\* failure prevents the other step.
C8_HandshakeBestEffort ==
    /\ C8_Order /\ C8_Reported
    /\ (JustConnected /\ args.Db # 0) => HandshakeCalls("selectDb") # {}

\* C8 amended: as C8, but SELECT is attempted only when AUTH was not needed
\* or its Exec returned a reply, be it an Error reply: an AUTH whose write
\* or decode failed makes Connect skip SELECT.
C8_HandshakeAuthGatesSelect ==
    /\ C8_Order /\ C8_Reported
    /\ JustConnected =>
          /\ (args.Db # 0 /\ \A j \in HandshakeCalls("auth") : Replied(j))
                => HandshakeCalls("selectDb") # {}
          /\ (\E j \in HandshakeCalls("auth") : ~Replied(j))
                => HandshakeCalls("selectDb") = {}

\* AUTH got an Error reply, SELECT was sent all the same and got one too
C8_Witness ==
    /\ JustConnected /\ connected
    /\ \E j \in HandshakeCalls("auth") :
          Replied(j) /\ Has(CallEvents(j), Out(AuthFailed(<<"E">>)))
    /\ \E j \in HandshakeCalls("selectDb") :
          Has(CallEvents(j), Out(SelectFailed(1, <<"E">>)))

IO == Idx({"write", "read"})

\* C9: writes of command lines and decodes of replies strictly alternate:
\* no command line is written before the reply to the command written
\* before it has been fully decoded.
C9_ReplyDecodedBeforeNextWrite ==
    \A j \in Idx({"write"}) :
        LET W == {m \in Before(Idx({"write"}), j) : hist[m].ok} IN
        W # {} =>
           \E m \in After(Idx({"read"}), Last(W)) : m < j /\ hist[m].st = "ok"

\* C9 amended: writes of command lines and calls of ReadValue strictly
\* alternate: ReadValue is called only after a successful write, once, and
\* a command line is written only when the ReadValue call for the line
\* written before it has returned; that call may have returned an error,
\* as after a handshake command whose reply failed to decode.
C9_WritesAndReadsAlternate ==
    /\ \A j \in Idx({"read"}) :
          LET p == Last(Before(IO, j)) IN
          p > 0 /\ hist[p].e = "write" /\ hist[p].ok
    /\ \A j \in Idx({"write"}) :
          LET p == Last(Before(IO, j)) IN
          p > 0 => (hist[p].e = "read" \/ ~hist[p].ok)
    /\ pc = "Receive" <=> (IO # {} /\ hist[Last(IO)].e = "write" /\ hist[Last(IO)].ok)

\* the reply to a handshake command failed to decode, and the next command
\* was written and answered
C9_Witness ==
    \E j \in Idx({"read"}) :
        /\ hist[j].st = "err"
        /\ \E m \in After(Idx({"write"}), j) : hist[m].ok /\ After(Idx({"read"}), m) # {}

\* C10: Exec writes the command line followed by CRLF exactly once per call
\* and then decodes exactly one reply; if the write fails no decode is
\* attempted; on a write or decode failure the error is written to the
\* output and returned with no value, and the command is never sent again.
C10_ExecOnce ==
    /\ Count({"write"}) = Count({"Exec"}) - (IF pc = "Send" THEN 1 ELSE 0)
    /\ pc = "ret" =>
          LET k    == Last(Idx({"Exec"}))
              evs  == SubSeq(hist, k + 1, Len(hist))
              line == hist[k].line \o <<CR, LF>>
          IN  /\ k > 0 /\ hist[k].line = input /\ hist[k].by = caller
              /\ \/ /\ evs = <<Wrote(line, TRUE), Read("ok", execRes.tv)>>
                    /\ execRes.err = "nil" /\ execRes.tv # NilPtr
                 \/ /\ evs = <<Wrote(line, TRUE), Read("err", NilPtr),
                               Out(ErrorString("read"))>>
                    /\ execRes = [tv |-> NilPtr, err |-> "read"]
                 \/ /\ evs = <<Wrote(line, FALSE), Out(ErrorString("write"))>>
                    /\ execRes = [tv |-> NilPtr, err |-> "write"]

\* an Exec whose write failed has returned
C10_Witness == pc = "ret" /\ execRes.err = "write" /\ caller = "ExecPrint"

PrintCalls == {j \in Idx({"Exec"}) : hist[j].by = "ExecPrint"}

\* the Exec called at position j has not returned to its caller's body yet
Pending(j) == pc \in {"Send", "Receive", "ret", "blocked"} /\ j = Last(Idx({"Exec"}))

\* the reply the Exec called at position j returned
ReplyOf(j) == SelectSeq(CallEvents(j), LAMBDA ev : ev.e = "read")[1].val

\* what was written to the output after the Exec called at position j
\* returned its reply
OutsOf(j) == SelectSeq(CallEvents(j), LAMBDA ev : ev.e = "out")

\* the ExecPrint calls whose Exec returned a reply and whose body has run
Printed == {j \in PrintCalls : Replied(j) /\ ~Pending(j)}

IsInfo(line) == EqualFold(Fields(line)[1], InfoWord)

\* C11: for a command whose first token is INFO in any case and whose reply
\* is a bulk string, ExecPrint writes the payload as it is, whatever the mode
\* flags; for every other command it writes PrintVal of the reply under the
\* selected mode.
C11_InfoVerbatim ==
    \A j \in Printed :
        IF IsInfo(hist[j].line)
        THEN ReplyOf(j).Type = TypeBulkString =>
                /\ ReplyOf(j).Val.k = "string"
                /\ OutsOf(j) = <<Out(ReplyOf(j).Val.s)>>
        ELSE OutsOf(j) = <<Out(PrintVal(ReplyOf(j), RawMode))>>

\* INFO answered by a bulk string with a payload
C11_InfoPayload ==
    \A j \in Printed :
        (IsInfo(hist[j].line) /\ ReplyOf(j).Type = TypeBulkString /\ ReplyOf(j).Val # NilVal)
            => OutsOf(j) = <<Out(ReplyOf(j).Val.s)>>

\* ExecPrint is about to handle the reply its Exec returned
ExecPrintGotReply == pc = "ret" /\ caller = "ExecPrint" /\ execRes.err = "nil"

\* C14: after ExecPrint of SELECT n whose reply is exactly the text OK the
\* tracked database index is n, parsed from the command text, and CliPrefix
\* shows it; for a command that is not SELECT, or a SELECT whose reply is
\* not OK, ExecPrint leaves the index as it was.
C14_SelectSetsDb ==
    [][ExecPrintGotReply =>
          IF IsSelect(input) /\ execRes.tv.Val = StrVal(OKText)
          THEN /\ args'.Db = SelectArg
               /\ connected' =>
                     CliPrefix' = (IF SelectArg = 0 THEN Addr
                                   ELSE Addr \o <<"[">> \o Itoa(SelectArg) \o <<"]">>)
          ELSE args'.Db = args.Db]_vars

\* SELECT 2 was answered OK on database 0 and the prompt shows [2]
C14_Witness ==
    /\ pc = "run" /\ loopI = 1 /\ connected /\ args.cmd = SelectCmd
    /\ hist[Last(Idx({"read"}))].val = SimpleOK
    /\ Idx({"Exec"}) = PrintCalls
    /\ args.Db = 2 /\ CliPrefix = <<"host:port", "[", "2", "]">>

\* a step of the handshake is about to handle an Error-typed reply
HandshakeGotError(by) ==
    /\ pc = "ret" /\ caller = by /\ execRes.err = "nil"
    /\ execRes.tv.Type = TypeError

\* what the step adds to the history
Added == SubSeq(hist', Len(hist) + 1, Len(hist'))

\* C15: when the handshake's SELECT gets an Error-typed reply the failure
\* is reported to the output, the tracked database index is reset to 0 and
\* the session stays Connected; when AUTH gets an Error-typed reply the
\* failure is reported and the session stays Connected with the index
\* unchanged.
C15_HandshakeErrorReplies ==
    [][/\ HandshakeGotError("selectDb") =>
            /\ Len(hist') > Len(hist)
            /\ Added[1] = Out(SelectFailed(args.Db, execRes.tv.Val.s))
            /\ args'.Db = 0
            /\ connected /\ connected' /\ conn' = "open"
       /\ HandshakeGotError("auth") =>
            /\ Len(hist') > Len(hist)
            /\ Added[1] = Out(AuthFailed(execRes.tv.Val.s))
            /\ args'.Db = args.Db
            /\ connected /\ connected' /\ conn' = "open"]_vars

\* SELECT 1 of the handshake got an Error reply: reported, index 0, connected
C15_Witness ==
    /\ JustConnected /\ connected /\ args.Db = 0
    /\ \E j \in HandshakeCalls("selectDb") :
          /\ hist[j].line = SelectLine(1)
          /\ Has(CallEvents(j), Out(SelectFailed(1, <<"E">>)))

\* the Exec calls of the executions whose write or decode failed
FailedCalls ==
    {j \in UserCalls :
        \E m \in 1..Len(CallEvents(j)) :
            LET ev == CallEvents(j)[m] IN
            \/ ev.e = "write" /\ ~ev.ok
            \/ ev.e = "read" /\ ev.st = "err"}

\* C16: when an execution of a repeat sequence fails by a write or decode
\* error, no later execution is performed, no further sleep happens and the
\* failure is returned; the same when the unit repeated is a SCAN pagination.
C16_RepeatAbort ==
    \A j \in FailedCalls :
        /\ After(Idx({"Exec", "exeFunc", "Sleep"}), j) = {}
        /\ pc \in {"ret", "done"}
        /\ pc = "done" => ret = "err"

\* the first of two paginations failed on its second page: singleCmd has
\* returned the error after one execution
C16_Witness ==
    /\ pc = "done" /\ ret = "err" /\ args.mode = "scan" /\ args.Repeat = 2
    /\ Count({"exeFunc"}) = 1 /\ Cardinality(ScanCalls) = 2
    /\ FailedCalls # {}

\* the SCAN requests answered by a page whose keys scan has handled
PagesDone == {j \in ScanCalls : Replied(j) /\ ~Pending(j) /\ IsPage(ReplyOf(j))}

PageKeys(tv) == tv.Val.a[2].Val.a

\* C17: every key of every page is rendered exactly once, in the order of
\* the page, pages in the order received, and all keys of a page are written
\* before the next SCAN request; keys are neither gathered across pages nor
\* deduplicated.
C17_ScanRendering ==
    \A j \in PagesDone :
        OutsOf(j) = [n \in 1..Len(PageKeys(ReplyOf(j))) |->
                        Out(PrintVal(PageKeys(ReplyOf(j))[n], RawMode))]

\* two pages with the same two keys: each page's keys were written after it
C17_Witness ==
    /\ Returned /\ args.mode = "scan" /\ ~RawMode
    /\ \E j, m \in PagesDone :
          /\ j < m
          /\ PageKeys(ReplyOf(j)) = <<BulkA, BulkB>>
          /\ OutsOf(j) = <<Out(<<"\"", "a", "\"", LF>>), Out(<<"\"", "b", "\"", LF>>)>>
          /\ OutsOf(m) = OutsOf(j)

\* the ExecPrint calls whose Exec returned an Error-typed reply
ErrorReplies == {j \in PrintCalls : Replied(j) /\ ReplyOf(j).Type = TypeError}

\* the Error-typed reply of call j was rendered, ExecPrint returned nil, the
\* session is still connected and the repeat sequence goes on
RenderedAsError(j) ==
    /\ (pc = "ret" /\ Pending(j)) => execRes = [tv |-> ReplyOf(j), err |-> "nil"]
    /\ ~Pending(j) =>
          /\ OutsOf(j) = <<Out((IF RawMode THEN <<>> ELSE ErrorText)
                               \o ReplyOf(j).Val.s \o <<LF>>)>>
          /\ pc \in {"run", "done"} \/ After(Idx({"exeFunc"}), j) # {}
          /\ pc = "run" => connected
          /\ (pc = "done" /\ j = Last(Idx({"Exec"}))) => ret = "nil"
          /\ Cardinality(Before(Idx({"exeFunc"}), j)) < args.Repeat =>
                (pc = "run" \/ After(Idx({"exeFunc"}), j) # {})

\* C18: an Error-typed reply is not a transport failure: Exec returns it as
\* a decoded value with no error, ExecPrint renders it, with "(error) "
\* before it in structured mode and as it is in raw mode, and returns
\* success, the session stays Connected and a repeat sequence goes on.
C18_ErrorReplyRendered == \A j \in ErrorReplies : RenderedAsError(j)

\* the same for the commands other than INFO
C18_ErrorReplyOtherCommands ==
    \A j \in ErrorReplies : ~IsInfo(hist[j].line) => RenderedAsError(j)

\* what ExecPrint does with an Error-typed reply to INFO: the text alone
C18_ErrorReplyToInfo ==
    \A j \in ErrorReplies :
        (IsInfo(hist[j].line) /\ ~Pending(j)) => OutsOf(j) = <<Out(ReplyOf(j).Val.s)>>

\* the program has crashed in ExecPrint or scan, on a reply that was decoded
CrashedOnReply ==
    /\ pc = "panic"
    /\ Idx({"read"}) # {}
    /\ hist[Last(Idx({"read"}))].st = "ok"

\* C23: for every decoded reply, of any kind and payload, ExecPrint and scan
\* end by returning success or an error; they never crash on a reply of
\* another kind than the one they expect.
C23_NoCrashOnReplyKind == ~CrashedOnReply

\* the replies ExecPrint and scan crash on: no string to INFO or SELECT,
\* and to SCAN anything but an array of a string and an array after it
C23_CrashesOnUnexpectedKind ==
    CrashedOnReply =>
        LET j  == Last(Idx({"Exec"}))
            tv == hist[Last(Idx({"read"}))].val
        IN  \/ /\ hist[j].by = "ExecPrint"
               /\ IsInfo(hist[j].line) \/ IsSelect(hist[j].line)
               /\ tv.Val.k # "string"
            \/ /\ hist[j].by = "scan"
               /\ ~IsPage(tv)

\* SCAN answered by an Error reply: scan crashes
C23_ScanErrorReply ==
    /\ CrashedOnReply
    /\ hist[Last(Idx({"Exec"}))].by = "scan"
    /\ hist[Last(Idx({"read"}))].val = ErrorE

\* the SELECT commands, of the handshake or of the user, that the server
\* got and answered +OK
SelectsDone ==
    {j \in Idx({"Exec"}) :
        /\ IsSelect(hist[j].line) /\ Len(Fields(hist[j].line)) >= 2
        /\ Replied(j)
        /\ ReplyOf(j) = SimpleOK}

\* the database selected on the server's side of the connection: 0 on a
\* fresh connection, then that of the last SELECT the server accepted
ServerDb ==
    IF SelectsDone = {} THEN 0
    ELSE Atoi(Fields(hist[Last(SelectsDone)].line)[2])

\* C24: whenever the session is Connected, between commands, the tracked
\* database index that CliPrefix shows is the database selected on the
\* server connection, also after a handshake in which AUTH or SELECT failed
\* by an Error reply or an I/O error.
C24_TrackedDbConsistent ==
    (connected /\ pc = "run") =>
        /\ args.Db = ServerDb
        /\ CliPrefix = (IF ServerDb = 0 THEN Addr
                        ELSE Addr \o <<"[">> \o Itoa(ServerDb) \o <<"]">>)

\* the write of AUTH failed, Connect skipped SELECT and returned nil: the
\* prompt shows database 1 on a connection that is on database 0
C24_AuthWriteFailed ==
    /\ JustConnected /\ connected
    /\ Cardinality(Idx({"Exec"})) = 1 /\ Idx({"read"}) = {}
    /\ \E j \in HandshakeCalls("auth") : ~Replied(j)
    /\ args.Db = 1 /\ ServerDb = 0 /\ CliPrefix = <<"host:port", "[", "1", "]">>

\* what holds of the code: the two agree as long as every SELECT was
\* answered +OK or by an Error reply other than -OK, and AUTH, when sent,
\* was answered
C24_ConsistentWhenAnswered ==
    (/\ connected /\ pc = "run"
     /\ \A j \in HandshakeCalls("auth") : Replied(j)
     /\ \A j \in Idx({"Exec"}) :
           IsSelect(hist[j].line) =>
              (Replied(j) /\ ReplyOf(j) \in {SimpleOK, ErrorE}))
        => args.Db = ServerDb

-----------------------------------------------------------------------------
(* Claims about Connect and Close, checked under ConnSpec *)

LastEvent == hist[Len(hist)]

ConnectFailed == [e |-> "Connect", err |-> TRUE]
CloseCalled   == [e |-> "Close"]

\* the state after each call, by the call's outcome
C19_States ==
    /\ hist = <<>> => ~connected
    /\ hist # <<>> =>
          /\ connected <=> (LastEvent.e = "Connect" /\ LastEvent # ConnectFailed)
          /\ connected => (conn = "open" /\ hasReader)
          /\ LastEvent = ConnectFailed =>
                /\ ~connected
                /\ Len(hist) >= 2 /\ hist[Len(hist) - 1] = Out(CouldNotConnect)
          /\ LastEvent = CloseCalled => (~connected /\ ~hasReader /\ conn # "open")

\* C19: the session starts Disconnected; Connect ends Connected only if the
\* dial succeeded; when the dial fails, from Disconnected or from Connected,
\* the error is reported and returned and the session is Disconnected; Close
\* from any state ends Disconnected, and a second Close changes nothing.
C19_ConnectionStates ==
    /\ []C19_States
    /\ [][(hist # <<>> /\ LastEvent = CloseCalled /\ hist' = Append(hist, CloseCalled))
             => UNCHANGED <<conn, hasReader, connected, bufReader, args>>]_vars

\* a Connect whose dial failed, called on a Connected session
C19_Witness ==
    /\ Len(hist) >= 3 /\ LastEvent = ConnectFailed /\ ~connected /\ conn = "closed"
    /\ hist[Len(hist) - 2] = [e |-> "Connect", err |-> FALSE]

-----------------------------------------------------------------------------
(* Claims about the interactive mode, checked under InteractiveSpec *)

\* the prompt goroutine is inside Connect or inside Exec
InProgress == pc \in {"dialed", "Send", "Receive"}

\* the main thread takes a step of Close that writes to the Connection:
\* closing a connection that is there, clearing the reader, resetting the
\* flag
CloseStep == ret' # ret /\ (ret = "none" => conn # "nil")

\* the prompt goroutine calls ReadValue
ReceiveStep == pc = "Receive" /\ pc' # "Receive"

\* C25: in the interactive mode no step of the main thread's Close changes
\* the Connection (its connection handle, its reader, its connected flag)
\* while a Connect or an Exec of the prompt goroutine is in progress, and
\* Exec's ReceiveValue never reads from a reader that Close has cleared.
C25_CloseExclusive ==
    [][ /\ CloseStep => ~InProgress
        /\ ReceiveStep => hasReader ]_vars

\* the interrupt arrives between Exec's Send and its ReceiveValue: the
\* write succeeded, Close cleared the reader, and ReadValue dereferenced nil
C25_ReceiveOnClearedReader ==
    /\ pc = "panic" /\ ~hasReader /\ ret = "cleared"
    /\ Len(hist) >= 2
    /\ hist[Len(hist)] = Read("panic", NilPtr)
    /\ hist[Len(hist) - 1] = Wrote(input \o CRLF, TRUE)

\* the interrupt arrives inside Connect: Close closes the old connection
\* and clears the reader, Connect installs the new ones, and Close returns
\* with the new connection open and its reader in place
C25_OpenAfterClose ==
    /\ ret = "nil" /\ conn = "open" /\ hasReader /\ ~connected

\* without an interrupt the prompt goroutine has the Connection to itself:
\* every ReceiveValue reads from the reader its Connect installed
C25_AloneUntilInterrupt ==
    (ret = "none" /\ pc \in {"Send", "Receive", "ret"}) =>
        conn = "open" /\ hasReader /\ connected

=============================================================================
